---- MODULE Spec2Model ----
(***************************************************************************)
(* Vehicle-registration analytics: the growth metrics of src/app.py, the   *)
(* market metrics and trends of src/utils.py, and the insight derivation   *)
(* of the dashboard's main().  Every operation is a function of one input  *)
(* table; the table is a sequence of rows (a pandas DataFrame keeps row    *)
(* order), and an operation's result is kept in `result`.                  *)
(*                                                                         *)
(* Floating-point values are kept exactly: a finite value as a reduced     *)
(* fraction, and the two non-finite outcomes of a division by zero (inf    *)
(* and NaN) as values of their own.  NaN is also pandas' missing value.    *)
(***************************************************************************)
EXTENDS Integers, Sequences, FiniteSets, TLC

VARIABLES
    df,        \* the input table: a sequence of rows
    columns,   \* df.columns: the set of column names of the table
    call,      \* the operation applied ("input" before any is)
    result     \* what the operation returned

vars == <<df, columns, call, result>>

----------------------------------------------------------------------------
(* Bounds of the model *)

MaxRows == 3

MaxMainRows == 4

----------------------------------------------------------------------------
(* Strings.  Python orders str by code point; StrOrder lists, in that      *)
(* order, every string a key column of the model can hold.                 *)

StrOrder ==
    << "2W", "3W", "4W", "April", "August", "Auto Rickshaw", "Bajaj", "Car",
       "December", "February", "Force Motors", "Four Wheeler",
       "Hero MotoCorp", "Honda", "Honda Cars", "Hyundai", "January", "July",
       "June", "Kia", "Mahindra", "March", "Maruti Suzuki", "May",
       "Motor Cycle", "November", "October", "Piaggio", "Q1", "Q2", "Q3",
       "Q4", "Royal Enfield", "SUV", "Scooter", "September", "TVS",
       "Tata Motors", "Three Wheeler", "Two Wheeler", "Yamaha" >>

StrRank == [s \in {StrOrder[i] : i \in 1..Len(StrOrder)} |->
               CHOOSE i \in 1..Len(StrOrder) : StrOrder[i] = s]

MonthName ==
    << "January", "February", "March", "April", "May", "June", "July",
       "August", "September", "October", "November", "December" >>

\* f"Q{(date.month-1)//3 + 1}"
QuarterOf(month) ==
    << "Q1", "Q2", "Q3", "Q4" >>[((month - 1) \div 3) + 1]

\* One row of the table, from the month-end date (year, month) it is for.
MakeRow(year, month, category, manufacturer, registrations) ==
    [ Date          |-> <<year, month>>,
      Year          |-> year,
      Quarter       |-> QuarterOf(month),
      Month         |-> MonthName[month],
      Category      |-> category,
      Manufacturer  |-> manufacturer,
      Registrations |-> registrations ]

AllColumns ==
    {"Date", "Year", "Quarter", "Month", "Category", "Manufacturer",
     "Registrations"}

----------------------------------------------------------------------------
(* Floating-point values *)

RECURSIVE GCD(_, _)
GCD(a, b) == IF b = 0 THEN a ELSE GCD(b, a % b)

Abs(x) == IF x < 0 THEN -x ELSE x

MaxOf(S) == CHOOSE x \in S : \A y \in S : y <= x

NaN    == [kind |-> "nan", num |-> 0, den |-> 0]
Inf    == [kind |-> "inf", num |-> 1, den |-> 0]
NegInf == [kind |-> "inf", num |-> -1, den |-> 0]

\* The finite value n/d, d > 0, in lowest terms.
Num(n, d) ==
    LET g == GCD(Abs(n), d)
    IN  [kind |-> "num", num |-> n \div g, den |-> d \div g]

\* a / b * 100 on numpy numbers: a division by zero is inf or NaN, no error.
DivTimes100(a, b) ==
    IF b = 0
    THEN IF a = 0 THEN NaN ELSE IF a > 0 THEN Inf ELSE NegInf
    ELSE IF b > 0 THEN Num(a * 100, b) ELSE Num(-(a * 100), -b)

\* (cur / prev - 1) * 100
PctChange100(cur, prev) ==
    IF prev = 0
    THEN IF cur = 0 THEN NaN ELSE IF cur > 0 THEN Inf ELSE NegInf
    ELSE IF prev > 0 THEN Num((cur - prev) * 100, prev)
                     ELSE Num(-((cur - prev) * 100), -prev)

IsNaN(x) == x.kind = "nan"

\* x < y on floats; every comparison with NaN is false.
FloatLess(x, y) ==
    /\ ~IsNaN(x) /\ ~IsNaN(y)
    /\ IF x.kind = "inf"
       THEN x.num < 0 /\ ~(y.kind = "inf" /\ y.num < 0)
       ELSE IF y.kind = "inf"
            THEN y.num > 0
            ELSE x.num * y.den < y.num * x.den

----------------------------------------------------------------------------
(* DataFrame.groupby(cols)[value].sum(): one group per distinct key        *)
(* present, the groups sorted by key (sort=True is the default).           *)

ValLess(col, a, b) ==
    CASE col \in {"Year", "Registrations", "MonthNum"} -> a < b
      [] col = "Date" -> a[1] < b[1] \/ (a[1] = b[1] /\ a[2] < b[2])
      [] OTHER -> StrRank[a] < StrRank[b]

KeyLess(cols, k1, k2) ==
    \E i \in 1..Len(cols) :
        /\ \A j \in 1..(i - 1) : k1[j] = k2[j]
        /\ ValLess(cols[i], k1[i], k2[i])

\* A sequence given as a function on 1..n, as a tuple.
AsSeq(s) == SubSeq(s, 1, Len(s))

KeyOf(row, cols) == AsSeq([i \in 1..Len(cols) |-> row[cols[i]]])

\* The row that holds key[i] in column cols[i].
RECURSIVE KeyRecord(_, _)
KeyRecord(cols, key) ==
    IF Len(cols) = 1
    THEN cols[1] :> key[1]
    ELSE (cols[1] :> key[1]) @@ KeyRecord(Tail(cols), Tail(key))

RECURSIVE SumSeq(_)
SumSeq(s) == IF s = <<>> THEN 0 ELSE Head(s) + SumSeq(Tail(s))

\* The values of column col, in row order.
Column(t, col) == AsSeq([i \in 1..Len(t) |-> t[i][col]])

\* The distinct keys of S in ascending order.
SortKeys(cols, S) ==
    AsSeq([i \in 1..Cardinality(S) |->
        CHOOSE k \in S :
            Cardinality({j \in S : KeyLess(cols, j, k)}) = i - 1])

\* groupby(..., sort=False): the keys in order of first appearance.
GroupKeysUnsorted(t, cols) ==
    LET S == {KeyOf(t[i], cols) : i \in 1..Len(t)}
        First(k) == CHOOSE i \in 1..Len(t) :
                        /\ KeyOf(t[i], cols) = k
                        /\ \A j \in 1..(i - 1) : KeyOf(t[j], cols) # k
    IN  AsSeq([i \in 1..Cardinality(S) |->
            CHOOSE k \in S :
                Cardinality({j \in S : First(j) < First(k)}) = i - 1])

GroupKeys(t, cols) ==
    SortKeys(cols, {KeyOf(t[i], cols) : i \in 1..Len(t)})

\* groupby(cols)[value].first().reset_index(): a group's first value, not
\* its sum.
GroupByFirst(t, cols, value) ==
    LET keys == GroupKeys(t, cols)
        Member(k) == SelectSeq(t, LAMBDA r : KeyOf(r, cols) = k)
    IN  AsSeq([i \in 1..Len(keys) |->
            KeyRecord(cols, keys[i]) @@ (value :> Member(keys[i])[1][value])])

\* groupby(cols)[value].sum().reset_index(): a table with the key columns
\* and the summed value column.
GroupBySum(t, cols, value) ==
    LET keys == GroupKeys(t, cols)
        Member(k) == SelectSeq(t, LAMBDA r : KeyOf(r, cols) = k)
    IN  AsSeq([i \in 1..Len(keys) |->
            KeyRecord(cols, keys[i]) @@ (value :> SumSeq(Column(Member(keys[i]), value)))])

\* value.pct_change(periods=1) * 100 without the groupby: each row against
\* the row before it, whatever its key.
PctChangeUngrouped(t, cols, value) ==
    AsSeq([i \in 1..Len(t) |->
        IF i = 1 THEN NaN ELSE PctChange100(t[i][value], t[i - 1][value])])

\* groupby(cols)[value].pct_change(periods=1) * 100: each row against the
\* previous row of the table that has the same key; NaN for a key's first row.
GroupPctChange(t, cols, value) ==
    AsSeq([i \in 1..Len(t) |->
        LET before == {j \in 1..(i - 1) : KeyOf(t[j], cols) = KeyOf(t[i], cols)}
        IN  IF before = {}
            THEN NaN
            ELSE LET p == CHOOSE j \in before : \A k \in before : k <= j
                 IN  PctChange100(t[i][value], t[p][value])])

----------------------------------------------------------------------------
(* src/app.py: calculate_growth_metrics *)

calculate_growth_metrics(t, groupby_cols, value_col) ==
    LET df_grouped == GroupBySum(t, groupby_cols \o <<"Year", "Quarter">>, value_col)
        yoy == GroupPctChange(df_grouped, groupby_cols \o <<"Quarter">>, value_col)
        qoq == GroupPctChange(df_grouped, groupby_cols, value_col)
    IN  AsSeq([i \in 1..Len(df_grouped) |->
            df_grouped[i] @@ ("YoY_Growth" :> yoy[i]) @@ ("QoQ_Growth" :> qoq[i])])

----------------------------------------------------------------------------
(* pandas Series: a sequence of (index label, value) entries *)

Entry(label, v) == [index |-> label, value |-> v]

\* groupby(col)[value].sum(): a Series indexed by the sorted keys.
GroupSumSeries(t, col, value) ==
    LET g == GroupBySum(t, <<col>>, value)
    IN  AsSeq([i \in 1..Len(g) |-> Entry(g[i][col], g[i][value])])

\* groupby(col)[value].mean(): the sum over the number of rows.
GroupMeanSeries(t, col, value) ==
    LET keys == GroupKeys(t, <<col>>)
        Member(k) == SelectSeq(t, LAMBDA r : KeyOf(r, <<col>>) = k)
    IN  AsSeq([i \in 1..Len(keys) |->
            Entry(keys[i][1],
                  Num(SumSeq(Column(Member(keys[i]), value)), Len(Member(keys[i]))))])

SeriesSum(s) == SumSeq(Column(s, "value"))

AsFloat(n) == Num(n, 1)

\* An integer Series as a float Series.
FloatSeries(s) ==
    AsSeq([i \in 1..Len(s) |-> Entry(s[i].index, AsFloat(s[i].value))])

\* Series.argmax() / Series.argmin(), skipping NaN: the position of the
\* first entry, in the Series' order, that no entry exceeds (that exceeds no
\* entry); 0 when there is no entry to choose from.
argmax(s) ==
    LET valid == {i \in 1..Len(s) : ~IsNaN(s[i].value)}
        best  == {i \in valid : \A j \in valid : ~FloatLess(s[i].value, s[j].value)}
    IN  IF valid = {} THEN 0 ELSE CHOOSE i \in best : \A j \in best : i <= j

argmin(s) ==
    LET valid == {i \in 1..Len(s) : ~IsNaN(s[i].value)}
        best  == {i \in valid : \A j \in valid : ~FloatLess(s[j].value, s[i].value)}
    IN  IF valid = {} THEN 0 ELSE CHOOSE i \in best : \A j \in best : i <= j

\* Series.idxmax() / Series.idxmin() of a Series that has an entry to choose.
idxmax(s) == s[argmax(s)].index

idxmin(s) == s[argmin(s)].index

\* The entry of s with label l.
Lookup(s, l) == s[CHOOSE i \in 1..Len(s) : s[i].index = l].value

\* s[::-1]
Reversed(s) == AsSeq([i \in 1..Len(s) |-> s[Len(s) + 1 - i]])

\* argsort(kind='quicksort') of the values, ascending, applied to the
\* entries S.  numpy's quicksort is not a stable sort, and the algorithm
\* behind it depends on the numpy build and the CPU (a scalar introsort that
\* sorts short arrays by insertion, or a SIMD sorting network); src/ pins no
\* version.  The value is the set of orders it can return: every order of
\* the entries with the values ascending.
RECURSIVE AscendingOrders(_)
AscendingOrders(S) ==
    IF S = {}
    THEN {<<>>}
    ELSE LET low == {e \in S : \A f \in S : e.value <= f.value}
         IN  UNION {{<<e>> \o rest : rest \in AscendingOrders(S \ {e})} : e \in low}

ArgsortAscending(s) == AscendingOrders({s[i] : i \in 1..Len(s)})

\* Series.sort_values(ascending=False): nargsort reverses the values, sorts
\* them ascending and reverses the outcome.  The orders it can return.
sort_values_descending(s) ==
    {Reversed(o) : o \in ArgsortAscending(Reversed(s))}

\* The fast path of nlargest, keep='first': the entries at or above the n-th
\* largest value, sorted by a stable sort, cut to n; equal values stay in
\* the Series' order.
NLargestFirst(s, n) ==
    LET Rank(i) == Cardinality({j \in 1..Len(s) :
                        \/ s[j].value > s[i].value
                        \/ s[j].value = s[i].value /\ j < i})
    IN  AsSeq([k \in 1..n |-> s[CHOOSE i \in 1..Len(s) : Rank(i) = k - 1]])

\* Series.nlargest(n): the outcomes it can have.  With n >= len(s) it is
\* sort_values(ascending=False).head(n).
nlargest(s, n) ==
    IF n <= 0
    THEN {<<>>}
    ELSE IF n >= Len(s)
         THEN sort_values_descending(s)
         ELSE {NLargestFirst(s, n)}

----------------------------------------------------------------------------
(* src/utils.py: calculate_market_metrics *)

TopManufacturers == 10

\* Lines 59-67: the metrics computed before the growth rates, with `top` the
\* outcome of nlargest(10).
market_metrics(t, top) ==
    LET category_share == GroupSumSeries(t, "Category", "Registrations")
    IN  [ total_registrations   |-> SumSeq(Column(t, "Registrations")),
          category_market_share |->
              AsSeq([i \in 1..Len(category_share) |->
                  Entry(category_share[i].index,
                        DivTimes100(category_share[i].value, SeriesSum(category_share)))]),
          top_manufacturers     |-> top ]

\* Lines 70-79: with a Date column the function groups the Series yoy_growth
\* by 'Category', which is no level of its index, and raises KeyError;
\* without one it returns the metrics.
calculate_market_metrics(t, cols, top) ==
    IF "Date" \in cols
    THEN [raised |-> "KeyError", metrics |-> <<>>]
    ELSE [raised |-> "none", metrics |-> market_metrics(t, top)]

----------------------------------------------------------------------------
(* src/utils.py: identify_trends *)

ConcentrationTop == 5

\* A finding: the text it starts with, what it names, and the number
\* formatted into it (NaN where it has none).
Finding(text, subject, v) == [text |-> text, subject |-> subject, value |-> v]

WithMonthNum(t) ==
    AsSeq([i \in 1..Len(t) |-> t[i] @@ ("MonthNum" :> t[i].Date[2])])

\* Lines 95-102, for a table that has a Date column.
seasonal_trends(t) ==
    LET monthly_avg == GroupMeanSeries(WithMonthNum(t), "MonthNum", "Registrations")
    IN  << Finding("Peak registration month", idxmax(monthly_avg), NaN),
           Finding("Lowest registration month", idxmin(monthly_avg), NaN) >>

\* idxmax of an empty Series raises ValueError, so an empty table does.
identify_trends(t, cols, top5) ==
    IF t = <<>>
    THEN [raised |-> "ValueError", trends |-> <<>>]
    ELSE LET category_totals == GroupSumSeries(t, "Category", "Registrations")
             manufacturer_totals == GroupSumSeries(t, "Manufacturer", "Registrations")
             top_5_share == DivTimes100(SeriesSum(top5), SeriesSum(manufacturer_totals))
         IN  [raised |-> "none",
              trends |->
                  (IF "Date" \in cols THEN seasonal_trends(t) ELSE <<>>)
                  \o << Finding("Dominant vehicle category",
                                idxmax(FloatSeries(category_totals)), NaN),
                        Finding("Top 5 manufacturers control", "", top_5_share) >>]

----------------------------------------------------------------------------
(* src/app.py: main, on the filtered table *)

\* Lines 199-207: the KPI's year-over-year delta; it guards its division.
kpi_yoy_growth(t) ==
    LET latest == MaxOf({t[i].Year : i \in 1..Len(t)})
        latest_total == SumSeq(Column(SelectSeq(t, LAMBDA r : r.Year = latest), "Registrations"))
        prev_rows == SelectSeq(t, LAMBDA r : r.Year = latest - 1)
        prev_total == SumSeq(Column(prev_rows, "Registrations"))
    IN  IF prev_rows # <<>>
        THEN IF prev_total > 0
             THEN Num((latest_total - prev_total) * 100, prev_total)
             ELSE AsFloat(0)
        ELSE AsFloat(0)

\* Lines 341-344
market_leadership(t) ==
    LET total_by_category == GroupSumSeries(t, "Category", "Registrations")
        dominant_category == idxmax(FloatSeries(total_by_category))
    IN  Finding("Market Leadership", dominant_category,
                DivTimes100(Lookup(total_by_category, dominant_category),
                            SeriesSum(total_by_category)))

\* Lines 348-350: the row of the latest year with the largest YoY_Growth, as
\* its position among that year's rows; 0 when every YoY_Growth of the year
\* is NaN (idxmax then returns a missing label or raises, by pandas version).
latest_growth_rows(growth_by_category) ==
    LET latest == MaxOf({growth_by_category[i].Year : i \in 1..Len(growth_by_category)})
    IN  SelectSeq(growth_by_category, LAMBDA r : r.Year = latest)

fastest_growing(latest_growth) ==
    argmax(AsSeq([i \in 1..Len(latest_growth) |->
               Entry(i, latest_growth[i].YoY_Growth)]))

\* Lines 353-356
market_concentration(t, top5) ==
    Finding("Market Concentration", "",
            DivTimes100(SeriesSum(top5), SumSeq(Column(t, "Registrations"))))

\* Lines 358-361: the months are grouped by name.
seasonality(t) ==
    Finding("Seasonality",
            idxmax(GroupMeanSeries(t, "Month", "Registrations")), NaN)

\* The whole run.  An empty selection ends it with an error message.  When
\* idxmax has no label to return, line 350 raises (in idxmax itself or in
\* .loc of the missing label) and no finding is shown.
main(t, top10, top5) ==
    IF t = <<>>
    THEN [status |-> "no data", insights |-> <<>>, top_manufacturers |-> <<>>,
          kpi_yoy |-> NaN]
    ELSE LET growth_by_category == calculate_growth_metrics(t, <<"Category">>, "Registrations")
             latest_growth == latest_growth_rows(growth_by_category)
             leader == fastest_growing(latest_growth)
         IN  IF leader = 0
             THEN [status |-> "raised", insights |-> <<>>,
                   top_manufacturers |-> top10, kpi_yoy |-> kpi_yoy_growth(t)]
             ELSE [status |-> "shown",
                   insights |->
                       << market_leadership(t),
                          Finding("Growth Leader", latest_growth[leader].Category,
                                  latest_growth[leader].YoY_Growth),
                          market_concentration(t, top5),
                          seasonality(t) >>,
                   top_manufacturers |-> top10, kpi_yoy |-> kpi_yoy_growth(t)]

----------------------------------------------------------------------------
(* src/utils.py: clean_registration_data *)

\* The missing value (NaN) of a Registrations cell of a raw table; counts
\* are never negative.
NA == -1

\* A Date cell of a raw table: a Timestamp, or the ISO string of that date.
DateCell(form, year, month) == [form |-> form, ym |-> <<year, month>>]

\* pd.to_datetime: a Timestamp stays, a string is parsed to its Timestamp.
to_datetime(d) == DateCell("Timestamp", d.ym[1], d.ym[2])

\* Two rows are equal in every column of the table.
SameRow(r1, r2, cols) == \A c \in cols : r1[c] = r2[c]

\* DataFrame.drop_duplicates(), keep='first'.
RECURSIVE drop_duplicates(_, _)
drop_duplicates(t, cols) ==
    IF t = <<>>
    THEN <<>>
    ELSE LET front == SubSeq(t, 1, Len(t) - 1)
             last  == t[Len(t)]
         IN  IF \E i \in 1..Len(front) : SameRow(front[i], last, cols)
             THEN drop_duplicates(front, cols)
             ELSE Append(drop_duplicates(front, cols), last)

\* DataFrame.dropna(subset=[col])
dropna(t, col) == SelectSeq(t, LAMBDA r : r[col] # NA)

category_mapping ==
    ("Two Wheeler" :> "2W") @@ ("Three Wheeler" :> "3W") @@ ("Four Wheeler" :> "4W") @@
    ("Motor Cycle" :> "2W") @@ ("Scooter" :> "2W") @@ ("Auto Rickshaw" :> "3W") @@
    ("Car" :> "4W") @@ ("SUV" :> "4W")

\* Series.map(category_mapping).fillna(original): a label the mapping does
\* not have stays.
MapCategory(c) == IF c \in DOMAIN category_mapping THEN category_mapping[c] ELSE c

\* Lines 20-44, in the code's order: duplicates, missing values, dates,
\* categories.  dropna raises KeyError without a Registrations column.
clean_registration_data(t, cols) ==
    IF "Registrations" \notin cols
    THEN [raised |-> "KeyError", table |-> <<>>]
    ELSE LET unique   == drop_duplicates(t, cols)
             complete == dropna(unique, "Registrations")
             dated    == IF "Date" \in cols
                         THEN AsSeq([i \in 1..Len(complete) |->
                                  [complete[i] EXCEPT !.Date = to_datetime(@)]])
                         ELSE complete
             mapped   == IF "Category" \in cols
                         THEN AsSeq([i \in 1..Len(dated) |->
                                  [dated[i] EXCEPT !.Category = MapCategory(@)]])
                         ELSE dated
         IN  [raised |-> "none", table |-> mapped]

----------------------------------------------------------------------------
(* Input tables *)

TablesOver(rows, n) == UNION {[1..k -> rows] : k \in 0..n}

\* Two dimension values: one over four periods, one of them a year after a
\* gap, the other over two.
GrowthRows ==
    {MakeRow(p[1], p[2], "2W", "Honda", n) :
        p \in {<<2021, 1>>, <<2021, 4>>, <<2022, 1>>, <<2023, 1>>}, n \in {0, 1}}
    \cup
    {MakeRow(p[1], p[2], "4W", "Bajaj", n) :
        p \in {<<2021, 1>>, <<2022, 1>>}, n \in {0, 1}}

----------------------------------------------------------------------------
(* Input tables, continued *)

\* Manufacturers of the three categories, one month, counts that can tie
\* and can be zero.
MarketRows ==
    {MakeRow(2021, 1, d[1], d[2], n) :
        d \in {<<"2W", "Honda">>, <<"2W", "Bajaj">>, <<"3W", "Bajaj">>,
               <<"4W", "Tata Motors">>},
        n \in {0, 1, 2}}

WideManufacturers ==
    << "Hero MotoCorp", "Honda", "TVS", "Bajaj", "Yamaha", "Royal Enfield",
       "Mahindra", "Piaggio", "Force Motors", "Maruti Suzuki", "Hyundai" >>

WideCategory(i) == IF i <= 6 THEN "2W" ELSE IF i <= 9 THEN "3W" ELSE "4W"

\* One row for each of the first k manufacturers: more manufacturers than
\* the top 5 (k = 6) and than the top 10 (k = 11) keep.
WideTables ==
    UNION {{AsSeq([i \in 1..k |->
                MakeRow(2021, 1, WideCategory(i), WideManufacturers[i], c[i])]) :
            c \in [1..k -> {1, 2}]} : k \in {6, 11}}

\* Six manufacturers with the totals 100, 80, 60, 40, 20 and 10.
ScenarioTable ==
    AsSeq([i \in 1..6 |->
        MakeRow(2021, 1, WideCategory(i), WideManufacturers[i],
                <<100, 80, 60, 40, 20, 10>>[i])])

\* One dimension value over months that tie in name and calendar order
\* differently, one of them in two years.
SeasonRows ==
    {MakeRow(p[1], p[2], "2W", "Honda", n) :
        p \in {<<2021, 1>>, <<2021, 2>>, <<2021, 4>>, <<2022, 1>>}, n \in {0, 1, 2}}

\* Two categories over a year boundary, one of them with a later year that
\* has no year before it.
MainRows ==
    {MakeRow(p[1], p[2], "2W", "Honda", n) :
        p \in {<<2021, 1>>, <<2022, 1>>, <<2023, 4>>}, n \in {0, 1}}
    \cup
    {MakeRow(p[1], p[2], "4W", "Bajaj", n) :
        p \in {<<2021, 1>>, <<2022, 1>>}, n \in {0, 1}}

----------------------------------------------------------------------------
(* Operations *)

NoCall == [op |-> "input", groupby_cols |-> <<>>]

ManufacturerTotals == GroupSumSeries(df, "Manufacturer", "Registrations")

CalculateGrowthMetrics ==
    /\ call.op = "input"
    /\ \E cols \in {<<"Category">>, <<"Manufacturer">>} :
          /\ call' = [op |-> "calculate_growth_metrics", groupby_cols |-> cols]
          /\ result' = calculate_growth_metrics(df, cols, "Registrations")
    /\ UNCHANGED <<df, columns>>

CalculateMarketMetrics ==
    /\ call.op = "input"
    /\ call' = [op |-> "calculate_market_metrics", groupby_cols |-> <<>>]
    /\ \E top \in nlargest(ManufacturerTotals, TopManufacturers) :
          result' = calculate_market_metrics(df, columns, top)
    /\ UNCHANGED <<df, columns>>

IdentifyTrends ==
    /\ call.op = "input"
    /\ call' = [op |-> "identify_trends", groupby_cols |-> <<>>]
    /\ \E top5 \in nlargest(ManufacturerTotals, ConcentrationTop) :
          result' = identify_trends(df, columns, top5)
    /\ UNCHANGED <<df, columns>>

\* The dashboard's table comes from load_sample_data and has every column.
Main ==
    /\ call.op = "input"
    /\ columns = AllColumns
    /\ call' = [op |-> "main", groupby_cols |-> <<>>]
    /\ \E top10 \in nlargest(ManufacturerTotals, TopManufacturers),
          top5 \in nlargest(ManufacturerTotals, ConcentrationTop) :
          result' = main(df, top10, top5)
    /\ UNCHANGED <<df, columns>>

InitGrowth ==
    /\ df \in TablesOver(GrowthRows, MaxRows)
    /\ columns = AllColumns
    /\ call = NoCall
    /\ result = <<>>

NextGrowth == CalculateGrowthMetrics

SpecGrowth == InitGrowth /\ [][NextGrowth]_vars

InitMarket ==
    /\ df \in TablesOver(MarketRows, MaxRows) \cup WideTables \cup {ScenarioTable}
    /\ columns \in {AllColumns, AllColumns \ {"Date"}}
    /\ call = NoCall
    /\ result = <<>>

NextMarket == CalculateMarketMetrics \/ IdentifyTrends \/ Main

SpecMarket == InitMarket /\ [][NextMarket]_vars

InitSeason ==
    /\ df \in TablesOver(SeasonRows, MaxRows)
    /\ columns = AllColumns
    /\ call = NoCall
    /\ result = <<>>

NextSeason == IdentifyTrends \/ Main

SpecSeason == InitSeason /\ [][NextSeason]_vars

InitMain ==
    /\ df \in TablesOver(MainRows, MaxMainRows)
    /\ columns = AllColumns
    /\ call = NoCall
    /\ result = <<>>

NextMain == Main

SpecMain == InitMain /\ [][NextMain]_vars

----------------------------------------------------------------------------
(* Raw tables and their cleaning *)

\* Rows of one manufacturer and one date, the date as a Timestamp or as a
\* string, the category as a code or as raw labels of it, the count present
\* or missing.
RawRows ==
    {[MakeRow(2021, 1, c, "Honda", n) EXCEPT !.Date = DateCell(f, 2021, 1)] :
        f \in {"Timestamp", "str"}, c \in {"4W", "Car", "2W"}, n \in {NA, 1}}

CleanRegistrationData ==
    /\ call.op = "input"
    /\ call' = [op |-> "clean_registration_data", groupby_cols |-> <<>>]
    /\ result' = clean_registration_data(df, columns)
    /\ UNCHANGED <<df, columns>>

InitClean ==
    /\ df \in TablesOver(RawRows, MaxRows)
    /\ columns \in {AllColumns, AllColumns \ {"Date"}, AllColumns \ {"Category"},
                    AllColumns \ {"Registrations"}}
    /\ call = NoCall
    /\ result = <<>>

NextClean == CleanRegistrationData

SpecClean == InitClean /\ [][NextClean]_vars

----------------------------------------------------------------------------
(* Properties of calculate_growth_metrics *)

GrowthDone == call.op = "calculate_growth_metrics"

\* The dimension column the records were grouped by.
Dim == call.groupby_cols[1]

QuarterNumber(q) == CHOOSE n \in 1..4 : <<"Q1", "Q2", "Q3", "Q4">>[n] = q

\* r1's period is earlier than r2's.
PeriodBefore(r1, r2) ==
    \/ r1.Year < r2.Year
    \/ r1.Year = r2.Year /\ QuarterNumber(r1.Quarter) < QuarterNumber(r2.Quarter)

\* The records of the same dimension value with an earlier period.
Earlier(i) ==
    {j \in DOMAIN result :
        result[j][Dim] = result[i][Dim] /\ PeriodBefore(result[j], result[i])}

\* The record of the same dimension value and quarter, one year before.
YearBefore(i) ==
    {j \in DOMAIN result :
        /\ result[j][Dim] = result[i][Dim]
        /\ result[j].Quarter = result[i].Quarter
        /\ result[j].Year = result[i].Year - 1}

\* The rows of the input behind record i.
RowsOf(i) ==
    SelectSeq(df, LAMBDA r : /\ r[Dim] = result[i][Dim]
                             /\ r.Year = result[i].Year
                             /\ r.Quarter = result[i].Quarter)

\* C1: every record's YoY_Growth is the percent change against the record
\* of the same dimension value and quarter of the year exactly one less, and
\* is absent when there is no such record.
C1_YoYAgainstYearMinusOne ==
    GrowthDone =>
        \A i \in DOMAIN result :
            IF YearBefore(i) = {}
            THEN IsNaN(result[i].YoY_Growth)
            ELSE \A j \in YearBefore(i) :
                    result[i].YoY_Growth =
                        PctChange100(result[i].Registrations, result[j].Registrations)

\* C2: every record's QoQ_Growth is the percent change against the record of
\* the same dimension value that immediately precedes it in (year, quarter)
\* order, and is absent for the earliest record of each dimension value.
C2_QoQAgainstPreceding ==
    GrowthDone =>
        \A i \in DOMAIN result :
            IF Earlier(i) = {}
            THEN IsNaN(result[i].QoQ_Growth)
            ELSE LET p == CHOOSE j \in Earlier(i) :
                              \A k \in Earlier(i) \ {j} : PeriodBefore(result[k], result[j])
                     cur  == result[i].Registrations
                     prev == result[p].Registrations
                 IN  IF prev # 0
                     THEN result[i].QoQ_Growth = Num((cur - prev) * 100, prev)
                     ELSE result[i].QoQ_Growth.kind # "num"

\* Two dimension values from rows given out of period order: one record with
\* a computed QoQ_Growth, and a later record that starts the other value.
C2_Witness ==
    /\ GrowthDone
    /\ Len(df) = 3
    /\ PeriodBefore(df[2], df[1])
    /\ \E i, k \in DOMAIN result :
          /\ i < k
          /\ result[i][Dim] # result[k][Dim]
          /\ result[i].QoQ_Growth.kind = "num"
          /\ result[i].QoQ_Growth.num # 0
          /\ IsNaN(result[k].QoQ_Growth)

\* C3: a growth value whose denominator (the prior period's aggregate) is
\* zero is absent, never infinite.
C3_ZeroDenominatorAbsent ==
    GrowthDone =>
        \A i \in DOMAIN result :
            /\ \A j \in Earlier(i) :
                  ( /\ \A k \in Earlier(i) \ {j} : PeriodBefore(result[k], result[j])
                    /\ result[j].Registrations = 0 )
                  => IsNaN(result[i].QoQ_Growth)
            /\ \A j \in YearBefore(i) :
                  result[j].Registrations = 0 => IsNaN(result[i].YoY_Growth)

\* C4: per dimension value there are as many records as distinct (year,
\* quarter) pairs among its rows; no pair twice, each with the sum of its
\* rows' counts, none without rows.
C4_OneRecordPerPeriod ==
    GrowthDone =>
        /\ \A k \in DOMAIN df :
              Cardinality({i \in DOMAIN result : result[i][Dim] = df[k][Dim]})
                = Cardinality({<<df[j].Year, df[j].Quarter>> :
                                  j \in {m \in DOMAIN df : df[m][Dim] = df[k][Dim]}})
        /\ \A i \in DOMAIN result :
              /\ RowsOf(i) # <<>>
              /\ result[i].Registrations = SumSeq(Column(RowsOf(i), "Registrations"))
              /\ \A j \in DOMAIN result :
                    ( /\ result[j][Dim] = result[i][Dim]
                      /\ result[j].Year = result[i].Year
                      /\ result[j].Quarter = result[i].Quarter )
                    => j = i

\* Two rows of one (dimension value, year, quarter) with non-zero counts,
\* and a third row elsewhere.
C4_Witness ==
    /\ GrowthDone
    /\ Len(df) = 3
    /\ Len(result) = 2
    /\ \E i \in DOMAIN result :
          /\ Len(RowsOf(i)) = 2
          /\ RowsOf(i)[1].Registrations = 1
          /\ RowsOf(i)[2].Registrations = 1
          /\ result[i].Registrations = 2

\* The permutations of 1..n, for every table length of the model.
RowOrders ==
    [n \in 0..MaxRows |->
        {p \in [1..n -> 1..n] : \A i, j \in 1..n : p[i] = p[j] => i = j}]

\* C5: the records, their order and their growth values are the same for
\* every permutation of the input rows.
C5_RowOrderIndependent ==
    GrowthDone =>
        \A p \in RowOrders[Len(df)] :
            calculate_growth_metrics(AsSeq([i \in 1..Len(df) |-> df[p[i]]]),
                                     call.groupby_cols, "Registrations") = result

\* Three rows of three different groups, given in descending key order,
\* with a growth value computed.
C5_Witness ==
    /\ GrowthDone
    /\ Len(df) = 3
    /\ Len(result) = 3
    /\ KeyLess(<<Dim, "Year", "Quarter">>,
               KeyOf(df[3], <<Dim, "Year", "Quarter">>),
               KeyOf(df[2], <<Dim, "Year", "Quarter">>))
    /\ KeyLess(<<Dim, "Year", "Quarter">>,
               KeyOf(df[2], <<Dim, "Year", "Quarter">>),
               KeyOf(df[1], <<Dim, "Year", "Quarter">>))
    /\ \E i \in DOMAIN result : result[i].QoQ_Growth.kind = "num"

----------------------------------------------------------------------------
(* Properties of the market metrics *)

TotalRegistrations == SumSeq(Column(df, "Registrations"))

MarketMetricsReturned ==
    call.op = "calculate_market_metrics" /\ result.raised = "none"

\* x + y on finite values.
AddFloat(x, y) == Num(x.num * y.den + y.num * x.den, x.den * y.den)

RECURSIVE SumFloats(_)
SumFloats(s) == IF s = <<>> THEN AsFloat(0) ELSE AddFloat(Head(s), SumFloats(Tail(s)))

\* The shares are one for each category of the table, each between 0 and
\* 100, and sum to 100.
SharesSumTo100(shares) ==
    /\ {shares[i].index : i \in DOMAIN shares} = {df[k].Category : k \in DOMAIN df}
    /\ Len(shares) = Cardinality({df[k].Category : k \in DOMAIN df})
    /\ \A i \in DOMAIN shares :
          /\ shares[i].value.kind = "num"
          /\ 0 <= shares[i].value.num
          /\ shares[i].value.num <= 100 * shares[i].value.den
    /\ SumFloats(Column(shares, "value")) = AsFloat(100)

\* C6: with total registrations above zero, calculate_market_metrics
\* returns market shares, one for each category of the table, that sum to
\* 100 and each lie between 0 and 100.
C6_SharesSumTo100 ==
    call.op = "calculate_market_metrics" /\ TotalRegistrations > 0 =>
        /\ result.raised = "none"
        /\ SharesSumTo100(result.metrics.category_market_share)

\* The same for the calls that return: the tables without a Date column.
SharesOfReturnedMetrics ==
    MarketMetricsReturned /\ TotalRegistrations > 0 =>
        SharesSumTo100(result.metrics.category_market_share)

NotNaNValue(f) == ~IsNaN(f.value)

\* C7: with total registrations zero, no share or ratio that is returned or
\* shown is not-a-number: every category is reported at 0%, or the
\* operation signals the empty market.
C7_ZeroTotalPolicy ==
    TotalRegistrations = 0 =>
        /\ MarketMetricsReturned =>
              \A i \in DOMAIN result.metrics.category_market_share :
                  result.metrics.category_market_share[i].value = AsFloat(0)
        /\ call.op = "identify_trends" /\ result.raised = "none" =>
              \A i \in DOMAIN result.trends :
                  result.trends[i].text = "Top 5 manufacturers control"
                      => NotNaNValue(result.trends[i])
        /\ call.op = "main" /\ result.status = "shown" =>
              \A i \in DOMAIN result.insights :
                  result.insights[i].text \in {"Market Leadership", "Market Concentration"}
                      => NotNaNValue(result.insights[i])

\* The top-N result the claim describes: the min(N, number of manufacturers)
\* largest totals, descending, equal totals by name ascending, also at the
\* cutoff.
Ahead(e, f) ==
    \/ e.value > f.value
    \/ e.value = f.value /\ StrRank[e.index] < StrRank[f.index]

TopNByNameOnTies(top, n) ==
    LET manufacturer_totals == ManufacturerTotals
        totals == {manufacturer_totals[i] : i \in 1..Len(manufacturer_totals)}
        kept   == {top[i] : i \in 1..Len(top)}
    IN  /\ Len(top) = IF n < Cardinality(totals) THEN n ELSE Cardinality(totals)
        /\ kept \subseteq totals
        /\ \A i, j \in 1..Len(top) : i < j => Ahead(top[i], top[j])
        /\ \A e \in kept : \A f \in totals \ kept : Ahead(e, f)

\* C8: the top-10 manufacturers of calculate_market_metrics and of the
\* dashboard are the largest totals in descending order, equal totals ranked
\* and cut off by manufacturer name ascending.
C8_TopNTiesByName ==
    /\ MarketMetricsReturned =>
          TopNByNameOnTies(result.metrics.top_manufacturers, TopManufacturers)
    /\ call.op = "main" /\ result.status # "no data" =>
          TopNByNameOnTies(result.top_manufacturers, TopManufacturers)

----------------------------------------------------------------------------
(* Properties of the seasonality *)

MonthsPresent == {df[k].Date[2] : k \in DOMAIN df}

MonthRows(m) == SelectSeq(df, LAMBDA r : r.Date[2] = m)

MonthSum(m) == SumSeq(Column(MonthRows(m), "Registrations"))

\* Month a's average count is below month b's.
AvgBelow(a, b) ==
    MonthSum(a) * Len(MonthRows(b)) < MonthSum(b) * Len(MonthRows(a))

\* The first month in calendar order among those of the largest (smallest)
\* average.
CalendarPeak ==
    CHOOSE m \in MonthsPresent :
        /\ \A o \in MonthsPresent : ~AvgBelow(m, o)
        /\ \A o \in MonthsPresent : o < m => AvgBelow(o, m)

CalendarLow ==
    CHOOSE m \in MonthsPresent :
        /\ \A o \in MonthsPresent : ~AvgBelow(o, m)
        /\ \A o \in MonthsPresent : o < m => AvgBelow(m, o)

\* C9: identify_trends and the dashboard report the month of the largest
\* (and identify_trends also of the smallest) average count, the first in
\* calendar order when several months share it.
C9_SeasonalityCalendarOrder ==
    /\ call.op = "identify_trends" /\ result.raised = "none" /\ "Date" \in columns =>
          /\ result.trends[1].subject = CalendarPeak
          /\ result.trends[2].subject = CalendarLow
    /\ call.op = "main" /\ result.status = "shown" =>
          result.insights[4].subject = MonthName[CalendarPeak]

----------------------------------------------------------------------------
(* Properties of the insight derivation *)

\* Some record of the growth table by category has a YoY_Growth.
SomeYoYComputable ==
    LET g == calculate_growth_metrics(df, <<"Category">>, "Registrations")
    IN  \E i \in 1..Len(g) : ~IsNaN(g[i].YoY_Growth)

\* C10: for a non-empty table the dashboard shows its findings without
\* failing, in the order market leadership, growth leader, market
\* concentration, seasonality: all four when some YoY_Growth is computable,
\* the other three when none is; no growth printed is undefined.
C10_FindingsInFixedOrder ==
    call.op = "main" /\ df # <<>> =>
        /\ result.status = "shown"
        /\ Column(result.insights, "text") =
              IF SomeYoYComputable
              THEN <<"Market Leadership", "Growth Leader", "Market Concentration",
                     "Seasonality">>
              ELSE <<"Market Leadership", "Market Concentration", "Seasonality">>
        /\ \A i \in DOMAIN result.insights :
              result.insights[i].text = "Growth Leader"
                  => result.insights[i].value.kind = "num"

\* The growth table by category.
GrowthByCategory == calculate_growth_metrics(df, <<"Category">>, "Registrations")

LatestYear == MaxOf({df[k].Year : k \in DOMAIN df})

\* The records of the growth table g that are of the most recent year of
\* the input and have a defined YoY_Growth: a number, neither the missing
\* value nor the inf of a zero prior value.
LatestWithYoY(g) ==
    {i \in 1..Len(g) : g[i].Year = LatestYear /\ g[i].YoY_Growth.kind = "num"}

\* Those of them that hold the maximum.
LatestMaximal(g) ==
    LET with == LatestWithYoY(g)
    IN  {i \in with : \A j \in with : ~FloatLess(g[i].YoY_Growth, g[j].YoY_Growth)}

\* C11: the growth-leader finding the dashboard shows names the category of
\* a record that holds the maximum YoY_Growth among the records of the most
\* recent year of the input, the records whose YoY_Growth is undefined left
\* out; of the categories that share the maximum it names the first by
\* name, and it prints that maximum.
C11_GrowthLeaderOfLatestYear ==
    call.op = "main" /\ result.status = "shown" =>
        LET g == GrowthByCategory
            maximal == LatestMaximal(g)
        IN  /\ result.insights[2].text = "Growth Leader"
            /\ \E i \in maximal :
                  /\ result.insights[2].subject = g[i].Category
                  /\ result.insights[2].value = g[i].YoY_Growth
                  /\ \A j \in maximal :
                        StrRank[g[i].Category] <= StrRank[g[j].Category]

----------------------------------------------------------------------------
(* Properties of the concentration ratio *)

\* The sum of the n largest values of a set of Series entries (of all of
\* them when there are fewer).
RECURSIVE SumLargest(_, _)
SumLargest(S, n) ==
    IF n = 0 \/ S = {}
    THEN 0
    ELSE LET e == CHOOSE x \in S : \A y \in S : y.value <= x.value
         IN  e.value + SumLargest(S \ {e}, n - 1)

\* The concentration ratios an operation has returned or shown.
ConcentrationRatios ==
    IF call.op = "identify_trends" /\ result.raised = "none"
    THEN {result.trends[i].value : i \in
             {k \in DOMAIN result.trends :
                 result.trends[k].text = "Top 5 manufacturers control"}}
    ELSE IF call.op = "main" /\ result.status = "shown"
         THEN {result.insights[i].value : i \in
                  {k \in DOMAIN result.insights :
                      result.insights[k].text = "Market Concentration"}}
         ELSE {}

\* What the ratio r is to be for the table df.
ConcentrationAsStated(r) ==
    LET manufacturer_totals == ManufacturerTotals
        totals == {manufacturer_totals[i] : i \in 1..Len(manufacturer_totals)}
    IN  /\ r = DivTimes100(SumLargest(totals, ConcentrationTop), TotalRegistrations)
        /\ Cardinality(totals) <= ConcentrationTop => r = AsFloat(100)
        /\ r.kind = "num" /\ r.num <= 100 * r.den
        /\ df = ScenarioTable => r = Num(300 * 100, 310)

\* C12: the concentration ratio of identify_trends and of the dashboard is
\* the sum of the 5 largest manufacturer totals over the total registrations,
\* times 100; it is 100 when at most 5 manufacturers are present, never
\* above 100, and 300/310*100 for the totals 100, 80, 60, 40, 20 and 10.
C12_ConcentrationRatio ==
    \A r \in ConcentrationRatios : ConcentrationAsStated(r)

\* The same for the tables that have registrations at all.
ConcentrationOfNonEmptyMarket ==
    TotalRegistrations > 0 => \A r \in ConcentrationRatios : ConcentrationAsStated(r)

----------------------------------------------------------------------------
(* Properties of clean_registration_data *)

Cleaned == call.op = "clean_registration_data" /\ result.raised = "none"

NoIdenticalRows(t) ==
    \A i, j \in 1..Len(t) : i < j => ~SameRow(t[i], t[j], columns)

NoMissingRegistrations(t) == \A i \in 1..Len(t) : t[i].Registrations # NA

\* C13: the table clean_registration_data returns has no two identical rows
\* and no row with a missing Registrations value, and cleaning it again
\* returns it unchanged.
C13_CleanedTableIsClean ==
    Cleaned =>
        /\ NoIdenticalRows(result.table)
        /\ NoMissingRegistrations(result.table)
        /\ clean_registration_data(result.table, columns) = result

\* The part of it that the order of the steps leaves true.
CleanedHasNoMissing == Cleaned => NoMissingRegistrations(result.table)

====
